---- MODULE Spec2Model ----
(***************************************************************************)
(* Model of wishday/webprint's IPP client (src/ipp_client.py): the request *)
(* encoder, the response decoder, the HTTP exchange and the extraction of  *)
(* cartridge records.                                                      *)
(*                                                                         *)
(* A Python bytes object is a sequence of integers 0..255; a Python str is *)
(* a sequence of code points.  Buffer positions are 0-based as in the      *)
(* source.  A decoded attribute value is a tagged record: StrVal(s) for str,  *)
(* IntVal(n) for int, BytesVal(b) for bytes.                                     *)
(***************************************************************************)
EXTENDS Integers, Sequences, FiniteSets, TLC

VARIABLES
    pc,                 \* position in the call chain
    printer_url,        \* IPPClient.printer_url
    url,                \* get_printer_attributes: the HTTP URL posted to
    ipp_request,        \* get_printer_attributes: the encoded request
    wire,               \* what the printer put on the wire (environment)
    response,           \* outcome of requests.post
    ipp_response,       \* _parse_ipp_response: the buffer being decoded
    pos,                \* _parse_ipp_response: the cursor
    attributes,         \* _parse_ipp_response: the mapping being built
    value,              \* _parse_ipp_response: the local `value`
    tag_reads,          \* _parse_ipp_response: tag bytes read so far (lines 98, 108)
    printer_attributes, \* get_ink_levels: what get_printer_attributes returned
    i,                  \* get_ink_levels: the loop index
    cartridges,         \* get_ink_levels: the records collected so far
    ret                 \* the value returned by the entry point called

vars == <<pc, printer_url, url, ipp_request, wire, response, ipp_response, pos,
          attributes, value, tag_reads, printer_attributes, i, cartridges, ret>>

-----------------------------------------------------------------------------
(* Bounds of the model                                                     *)

\* attributes in the first group of a generated response
MaxAttrs == 2
\* bytes a generated response may lose at its end (truncation)
MaxCut == 3
\* tokens in a comma-joined marker-* value
MaxTokens == 2

-----------------------------------------------------------------------------
(* Python primitives                                                       *)

\* the element of a one-element set; The({e(x) : x \in {v}}) is e with the
\* local x assigned v once and read many times
The(S) == CHOOSE y \in S : TRUE

Min(a, b) == IF a < b THEN a ELSE b
Max(a, b) == IF a > b THEN a ELSE b

\* b[lo:hi] for 0 <= lo <= hi: a slice never raises, it is cut at len(b)
Slice(b, lo, hi) == SubSeq(b, lo + 1, Min(hi, Len(b)))

RECURSIVE BigEndian(_)
BigEndian(b) == IF b = <<>> THEN 0
                ELSE 256 * BigEndian(SubSeq(b, 1, Len(b) - 1)) + b[Len(b)]

\* struct.unpack('!H', s)[0] (n = 2) and struct.unpack('!I', s)[0] (n = 4):
\* struct.error unless s has exactly n bytes
Unpack(s, n) == [ok |-> Len(s) = n, v |-> BigEndian(s)]

\* struct.pack('!H', n): struct.error unless 0 <= n <= 65535
PackH(n) == [ok |-> n >= 0 /\ n <= 65535, b |-> <<(n \div 256) % 256, n % 256>>]

\* struct.pack('!I', n)
PackI(n) == <<(n \div 16777216) % 256, (n \div 65536) % 256, (n \div 256) % 256, n % 256>>

IsCont(b) == b >= 128 /\ b <= 191

\* number of bytes of the UTF-8 sequence that starts b at index k (1-based),
\* 0 when no valid sequence starts there
Utf8Width(b, k) ==
    LET b0 == b[k]
        c(j) == k + j <= Len(b) /\ IsCont(b[k + j])
    IN  IF b0 < 128 THEN 1
        ELSE IF b0 >= 194 /\ b0 <= 223 /\ c(1) THEN 2
        ELSE IF b0 >= 224 /\ b0 <= 239 /\ c(1) /\ c(2)
                /\ (b0 = 224 => b[k + 1] >= 160)
                /\ (b0 = 237 => b[k + 1] <= 159) THEN 3
        ELSE IF b0 >= 240 /\ b0 <= 244 /\ c(1) /\ c(2) /\ c(3)
                /\ (b0 = 240 => b[k + 1] >= 144)
                /\ (b0 = 244 => b[k + 1] <= 143) THEN 4
        ELSE 0

Utf8CodePoint(b, k, w) ==
    IF w = 1 THEN b[k]
    ELSE IF w = 2 THEN (b[k] - 192) * 64 + (b[k + 1] - 128)
    ELSE IF w = 3 THEN (b[k] - 224) * 4096 + (b[k + 1] - 128) * 64 + (b[k + 2] - 128)
    ELSE (b[k] - 240) * 262144 + (b[k + 1] - 128) * 4096
         + (b[k + 2] - 128) * 64 + (b[k + 3] - 128)

RECURSIVE Utf8DecodeFrom(_, _)
Utf8DecodeFrom(b, k) ==
    IF k > Len(b) THEN [ok |-> TRUE, s |-> <<>>]
    ELSE The({
         IF w = 0 THEN [ok |-> FALSE, s |-> <<>>]
         ELSE The({
              [ok |-> rest.ok,
               s  |-> IF rest.ok THEN <<Utf8CodePoint(b, k, w)>> \o rest.s
                      ELSE <<>>]
              : rest \in {Utf8DecodeFrom(b, k + w)}})
         : w \in {Utf8Width(b, k)}})

\* bytes.decode('utf-8'): ok = FALSE stands for UnicodeDecodeError
Utf8Decode(b) == Utf8DecodeFrom(b, 1)

IsSurrogate(c) == c >= 55296 /\ c <= 57343

Utf8EncodeChar(c) ==
    IF c < 128 THEN <<c>>
    ELSE IF c < 2048 THEN <<192 + (c \div 64), 128 + (c % 64)>>
    ELSE IF c < 65536
    THEN <<224 + (c \div 4096), 128 + ((c \div 64) % 64), 128 + (c % 64)>>
    ELSE <<240 + (c \div 262144), 128 + ((c \div 4096) % 64),
           128 + ((c \div 64) % 64), 128 + (c % 64)>>

RECURSIVE Utf8EncodeAll(_)
Utf8EncodeAll(s) ==
    IF s = <<>> THEN <<>> ELSE Utf8EncodeChar(Head(s)) \o Utf8EncodeAll(Tail(s))

\* str.encode('utf-8'): ok = FALSE stands for UnicodeEncodeError
Utf8Encode(s) == [ok |-> \A k \in 1..Len(s) : ~IsSurrogate(s[k]),
                  b  |-> Utf8EncodeAll(s)]

\* decoded attribute values, by Python type
StrVal(s) == [t |-> "str", v |-> s]
IntVal(n) == [t |-> "int", v |-> <<n>>]
BytesVal(b) == [t |-> "bytes", v |-> b]
\* a local variable that has not been assigned yet
Unbound == [t |-> "unbound", v |-> <<>>]

\* the dict {} and d[k] = v
EmptyDict == [k \in {} |-> Unbound]
DictSet(d, k, v) == [n \in (DOMAIN d) \cup {k} |-> IF n = k THEN v ELSE d[n]]

-----------------------------------------------------------------------------
(* IPP tags                                                                *)

TAG_END == 3
TAG_TEXT == 33
TAG_OCTET == 34
TAG_NAME == 35
TAG_ENUM == 53
TAG_KEYWORD == 68

-----------------------------------------------------------------------------
(* _parse_ipp_response, one attribute                                      *)

\* an exception raised inside the try block, with the cursor where it was raised
ParseError(p) == [ok |-> FALSE, pos |-> p, name |-> <<>>, value |-> Unbound]

\* lines 124-155: the value of an attribute whose name ends before position q
ReadValue(buf, q, tag, name, prev) ==
    The({The({
    LET text == Utf8Decode(raw)
        num == Unpack(Slice(buf, q + 2, q + 6), 4)
    IN  IF ~value_len.ok THEN ParseError(q)
        ELSE IF tag \in {TAG_TEXT, TAG_NAME, TAG_KEYWORD}
        THEN IF text.ok
             THEN [ok |-> TRUE, pos |-> q + 2 + value_len.v, name |-> name,
                   value |-> StrVal(text.s)]
             ELSE ParseError(q + 2)
        ELSE IF tag = TAG_ENUM
        THEN IF num.ok
             THEN [ok |-> TRUE, pos |-> q + 6, name |-> name, value |-> IntVal(num.v)]
             ELSE ParseError(q + 2)
        ELSE IF tag = TAG_OCTET
        THEN [ok |-> TRUE, pos |-> q + 2 + value_len.v, name |-> name,
              value |-> BytesVal(raw)]
        \* any other tag: the cursor moves on and `value` keeps what it held;
        \* attributes[name] = value is an UnboundLocalError when it held nothing
        ELSE IF prev = Unbound THEN ParseError(q + 2 + value_len.v)
        ELSE [ok |-> TRUE, pos |-> q + 2 + value_len.v, name |-> name, value |-> prev]
        : raw \in {Slice(buf, q + 2, q + 2 + value_len.v)}})
        : value_len \in {Unpack(Slice(buf, q, q + 2), 2)}})

\* lines 115-157: the attribute whose tag byte was read just before position p
ReadAttribute(buf, p, tag, prev) ==
    The({The({
        IF ~name_len.ok THEN ParseError(p)
        ELSE IF ~name.ok THEN ParseError(p + 2)
        ELSE ReadValue(buf, p + 2 + name_len.v, tag, name.s, prev)
        : name \in {Utf8Decode(Slice(buf, p + 2, p + 2 + name_len.v))}})
        : name_len \in {Unpack(Slice(buf, p, p + 2), 2)}})

-----------------------------------------------------------------------------
(* The printer's side: responses put on the wire                           *)

SeqsUpTo(S, n) == UNION {[1..k -> S] : k \in 0..n}

RECURSIVE Concat(_)
Concat(ss) == IF ss = <<>> THEN <<>> ELSE Head(ss) \o Concat(Tail(ss))

\* version 2.1, status successful-ok, request id 1
ResponseHeader == <<2, 1, 0, 0, 0, 0, 0, 1>>

\* an attribute as RFC 8010 puts it on the wire: tag, name-length, name,
\* value-length, value
EncodeAttr(a) ==
    <<a.tag>> \o PackH(Len(a.name)).b \o a.name \o PackH(Len(a.payload)).b \o a.payload

EncodeAttrs(as) == Concat([k \in 1..Len(as) |-> EncodeAttr(as[k])])

\* a response: a group of attributes, an optional end-of-attributes tag, an
\* optional second group after it, and the last `cut` bytes lost
WireBytes(w) ==
    LET full == ResponseHeader \o <<1>> \o EncodeAttrs(w.attrs)
                \o (IF w.ended THEN <<TAG_END>> ELSE <<>>)
                \o (IF w.more = <<>> THEN <<>> ELSE <<2>> \o EncodeAttrs(w.more))
    IN  SubSeq(full, 1, Len(full) - w.cut)

Wires(attrs, after, cuts) ==
    {[attrs |-> a, ended |-> e, more |-> m, cut |-> c] :
        a \in SeqsUpTo(attrs, MaxAttrs), e \in BOOLEAN,
        m \in SeqsUpTo(after, 1), c \in cuts}

\* a tag this client does not know: 0x10, the out-of-band 'unsupported'
UnknownTags == {16}

SampleTags == {TAG_TEXT, TAG_OCTET, TAG_NAME, TAG_ENUM, TAG_KEYWORD} \cup UnknownTags

\* "a", "b"
SampleNames == {<<97>>, <<98>>}

\* one value per tag: "1", raw byte ff, "e-acute" (c3 a9), 7, "23", and a
\* payload of the unknown tag
SamplePayload(tag) ==
    CASE tag = TAG_TEXT -> <<49>>
      [] tag = TAG_OCTET -> <<255>>
      [] tag = TAG_NAME -> <<195, 169>>
      [] tag = TAG_ENUM -> <<0, 0, 0, 7>>
      [] tag = TAG_KEYWORD -> <<50, 51>>
      [] OTHER -> <<120>>

SampleAttrs ==
    {[tag |-> t, name |-> n, payload |-> SamplePayload(t)] :
        t \in SampleTags, n \in SampleNames}

\* the attributes a second group may hold: a text attribute, an unknown one
SampleAfter == {a \in SampleAttrs : a.name = <<97>> /\ a.tag \in {TAG_TEXT} \cup UnknownTags}

ParseWires ==
    {w \in Wires(SampleAttrs, SampleAfter, 0..MaxCut) : w.more # <<>> => w.ended}

-----------------------------------------------------------------------------
(* _parse_ipp_response as a state machine                                  *)

AtEnd == pos >= Len(ipp_response)
\* the byte ipp_response[pos:pos+1]
NextByte == ipp_response[pos + 1]

UnchangedCall == UNCHANGED <<printer_url, url, ipp_request, wire, response, ipp_response>>
UnchangedInk == UNCHANGED <<i, cartridges, ret>>

\* lines 90-94
ParseEnter ==
    /\ pc = "parse"
    /\ pos' = 8
    /\ attributes' = EmptyDict
    /\ value' = Unbound
    /\ tag_reads' = 0
    /\ pc' = "group"
    /\ UNCHANGED printer_attributes
    /\ UnchangedCall /\ UnchangedInk

\* lines 96-103: the outer loop reads a group tag; the end tag returns
ParseGroup ==
    /\ pc = "group"
    /\ ~AtEnd
    /\ pos' = pos + 1
    /\ tag_reads' = tag_reads + 1
    /\ IF NextByte = TAG_END
       THEN pc' = "ink" /\ printer_attributes' = attributes
       ELSE pc' = "attr" /\ UNCHANGED printer_attributes
    /\ UNCHANGED <<attributes, value>>
    /\ UnchangedCall /\ UnchangedInk

\* lines 96, 159: the outer loop ends with the buffer
ParseReturn ==
    /\ pc = "group"
    /\ AtEnd
    /\ pc' = "ink"
    /\ printer_attributes' = attributes
    /\ UNCHANGED <<pos, attributes, value, tag_reads>>
    /\ UnchangedCall /\ UnchangedInk

\* ParseAttrEnd with the end tag looked at but not consumed (no pos += 1)
ParseAttrEndNoAdvance ==
    /\ pc = "attr"
    /\ IF AtEnd THEN TRUE ELSE NextByte = TAG_END
    /\ tag_reads' = IF AtEnd THEN tag_reads ELSE tag_reads + 1
    /\ pc' = "group"
    /\ UNCHANGED <<pos, attributes, value, printer_attributes>>
    /\ UnchangedCall /\ UnchangedInk

\* lines 106-113: the inner loop ends with the buffer or at an end tag, and
\* control is back at the head of the outer loop
ParseAttrEnd ==
    /\ pc = "attr"
    /\ IF AtEnd THEN TRUE ELSE NextByte = TAG_END
    /\ pos' = IF AtEnd THEN pos ELSE pos + 1
    /\ tag_reads' = IF AtEnd THEN tag_reads ELSE tag_reads + 1
    /\ pc' = "group"
    /\ UNCHANGED <<attributes, value, printer_attributes>>
    /\ UnchangedCall /\ UnchangedInk

\* lines 108-157: one attribute is decoded and stored
ParseAttr ==
    /\ pc = "attr"
    /\ ~AtEnd
    /\ NextByte # TAG_END
    /\ LET r == ReadAttribute(ipp_response, pos + 1, NextByte, value)
       IN  /\ r.ok
           /\ pos' = r.pos
           /\ value' = r.value
           /\ attributes' = DictSet(attributes, r.name, r.value)
    /\ tag_reads' = tag_reads + 1
    /\ pc' = "attr"
    /\ UNCHANGED printer_attributes
    /\ UnchangedCall /\ UnchangedInk

\* lines 161-163: any exception inside the try block returns {}
ParseFail ==
    /\ pc = "attr"
    /\ ~AtEnd
    /\ NextByte # TAG_END
    /\ LET r == ReadAttribute(ipp_response, pos + 1, NextByte, value)
       IN  /\ ~r.ok
           /\ pos' = r.pos
    /\ tag_reads' = tag_reads + 1
    /\ pc' = "ink"
    /\ printer_attributes' = EmptyDict
    /\ UNCHANGED <<attributes, value>>
    /\ UnchangedCall /\ UnchangedInk

parse_ipp_response ==
    ParseEnter \/ ParseGroup \/ ParseReturn \/ ParseAttrEnd \/ ParseAttr \/ ParseFail

\* _parse_ipp_response called on a response buffer
InitParse ==
    /\ pc = "parse"
    /\ wire \in ParseWires
    /\ ipp_response = WireBytes(wire)
    /\ printer_url = <<>>
    /\ url = <<>>
    /\ ipp_request = <<>>
    /\ response = [kind |-> "none", status |-> 0]
    /\ pos = 0
    /\ attributes = EmptyDict
    /\ value = Unbound
    /\ tag_reads = 0
    /\ printer_attributes = EmptyDict
    /\ i = 0
    /\ cartridges = <<>>
    /\ ret = <<>>

NextParse ==
    \/ ParseEnter
    \/ ParseGroup
    \/ ParseReturn
    \/ ParseAttrEnd
    \/ ParseAttr
    \/ ParseFail

SpecParse == InitParse /\ [][NextParse]_vars

\* the decoder is straight-line sequential code: a step that can be taken is
\* taken
SpecParseFair == SpecParse /\ WF_vars(NextParse)

-----------------------------------------------------------------------------
(* _build_ipp_request                                                      *)

\* "uri:"
S_uri_prefix == <<117, 114, 105, 58>>

\* line 58: b'\x47\x00\x12attributes-charset\x00utf-8'
charset ==
    <<71, 0, 18, 97, 116, 116, 114, 105, 98, 117, 116, 101, 115, 45, 99, 104, 97,
      114, 115, 101, 116, 0, 117, 116, 102, 45, 56>>

\* line 59: b'\x48\x00\x1battributes-natural-language\x00en-us'
language ==
    <<72, 0, 27, 97, 116, 116, 114, 105, 98, 117, 116, 101, 115, 45, 110, 97, 116,
      117, 114, 97, 108, 45, 108, 97, 110, 103, 117, 97, 103, 101, 0, 101, 110, 45,
      117, 115>>

\* line 64: b'\x45\x00\x0bprinter-uri\x00'
uri_head == <<69, 0, 11, 112, 114, 105, 110, 116, 101, 114, 45, 117, 114, 105, 0>>

\* lines 67-68: b'\x44\x00\x14requested-attributes\x00'
\*              b'\x00\x14marker-colors,marker-levels,marker-names,marker-types'
requested_attributes ==
    <<68, 0, 20, 114, 101, 113, 117, 101, 115, 116, 101, 100, 45, 97, 116, 116, 114,
      105, 98, 117, 116, 101, 115, 0, 0, 20, 109, 97, 114, 107, 101, 114, 45, 99,
      111, 108, 111, 114, 115, 44, 109, 97, 114, 107, 101, 114, 45, 108, 101, 118,
      101, 108, 115, 44, 109, 97, 114, 107, 101, 114, 45, 110, 97, 109, 101, 115,
      44, 109, 97, 114, 107, 101, 114, 45, 116, 121, 112, 101, 115>>

\* lines 47-78; ok = FALSE stands for an exception (UnicodeEncodeError from
\* encode, struct.error from pack)
build_ipp_request(operation_id, purl) ==
    LET version == <<2, 1>>
        operation_id_bytes == PackH(operation_id)
        request_id == PackI(1)
        attributes_group_tag == <<1>>
        uri == Utf8Encode(S_uri_prefix \o purl)
        uri_len == PackH(Len(uri.b))
        uri_bytes == uri_head \o uri_len.b \o uri.b
        end_tag == <<3>>
    IN  [ok |-> operation_id_bytes.ok /\ uri.ok /\ uri_len.ok,
         b  |-> version \o operation_id_bytes.b \o request_id
                \o attributes_group_tag \o charset \o language \o uri_bytes
                \o requested_attributes \o end_tag]

-----------------------------------------------------------------------------
(* get_printer_attributes                                                  *)

\* Get-Printer-Attributes
OP_GET_PRINTER_ATTRIBUTES == 11

\* "ipp://", "ipps://", "http://", "https://"
S_ipp == <<105, 112, 112, 58, 47, 47>>
S_ipps == <<105, 112, 112, 115, 58, 47, 47>>
S_http == <<104, 116, 116, 112, 58, 47, 47>>
S_https == <<104, 116, 116, 112, 115, 58, 47, 47>>

\* s.startswith(prefix)
StartsWith(s, prefix) ==
    Len(s) >= Len(prefix) /\ SubSeq(s, 1, Len(prefix)) = prefix

\* s.replace(old, new) for a non-empty old: every occurrence, left to right
RECURSIVE Replace(_, _, _)
Replace(s, old, new) ==
    IF s = <<>> THEN <<>>
    ELSE IF StartsWith(s, old)
    THEN new \o Replace(SubSeq(s, Len(old) + 1, Len(s)), old, new)
    ELSE <<Head(s)>> \o Replace(Tail(s), old, new)

\* lines 173-178
HttpUrl(purl) ==
    IF StartsWith(purl, S_ipp) THEN Replace(purl, S_ipp, S_http)
    ELSE IF StartsWith(purl, S_ipps) THEN Replace(purl, S_ipps, S_https)
    ELSE S_http \o purl

\* the HTTP status that lets the body be decoded (line 195)
HTTP_OK == 200

\* "ipp://h", "ipps://h", "h", and "ipp://" followed by e-acute
PrinterUrls ==
    {S_ipp \o <<104>>, S_ipps \o <<104>>, <<104>>, S_ipp \o <<233>>}

\* the statuses a printer answers with
Statuses == {HTTP_OK, 404}

\* "marker-colors", "marker-levels", "marker-names", "marker-types"
S_marker_colors == <<109, 97, 114, 107, 101, 114, 45, 99, 111, 108, 111, 114, 115>>
S_marker_levels == <<109, 97, 114, 107, 101, 114, 45, 108, 101, 118, 101, 108, 115>>
S_marker_names == <<109, 97, 114, 107, 101, 114, 45, 110, 97, 109, 101, 115>>
S_marker_types == <<109, 97, 114, 107, 101, 114, 45, 116, 121, 112, 101, 115>>

\* the attributes of the printers of the model: marker-colors "black,cyan",
\* marker-levels "8,45", marker-names "K,C", marker-types as the enum 3, and
\* marker-levels under a tag this client does not know
MarkerAttrs ==
    {[tag |-> TAG_KEYWORD, name |-> S_marker_colors,
      payload |-> <<98, 108, 97, 99, 107, 44, 99, 121, 97, 110>>],
     [tag |-> TAG_TEXT, name |-> S_marker_levels, payload |-> <<56, 44, 52, 53>>],
     [tag |-> TAG_NAME, name |-> S_marker_names, payload |-> <<75, 44, 67>>],
     [tag |-> TAG_ENUM, name |-> S_marker_types, payload |-> <<0, 0, 0, 3>>]}
    \cup {[tag |-> t, name |-> S_marker_levels, payload |-> <<57>>] : t \in UnknownTags}

PrinterWires == Wires(MarkerAttrs, {}, {0, 1})

UnchangedParse == UNCHANGED <<ipp_response, pos, attributes, value, tag_reads>>

\* lines 320-322, 214-215, 171-181: the entry point builds the client, and
\* get_printer_attributes the URL and the request; an exception there is
\* caught at line 203
GetPrinterAttributes ==
    /\ pc = "call"
    /\ LET req == build_ipp_request(OP_GET_PRINTER_ATTRIBUTES, printer_url)
       IN  IF req.ok
           THEN /\ url' = HttpUrl(printer_url)
                /\ ipp_request' = req.b
                /\ pc' = "post"
                /\ UNCHANGED printer_attributes
           ELSE /\ printer_attributes' = EmptyDict
                /\ pc' = "ink"
                /\ UNCHANGED <<url, ipp_request>>
    /\ UNCHANGED <<printer_url, wire, response>>
    /\ UnchangedParse /\ UnchangedInk

\* lines 189-194, 203-205: requests.post raises (connection refused, timeout,
\* TLS failure) and {} is returned
PostRaises ==
    /\ pc = "post"
    /\ response' = [kind |-> "raised", status |-> 0]
    /\ printer_attributes' = EmptyDict
    /\ pc' = "ink"
    /\ UNCHANGED <<printer_url, url, ipp_request, wire>>
    /\ UnchangedParse /\ UnchangedInk

\* PostResponds without the status check of line 195
PostRespondsAnyStatus ==
    /\ pc = "post"
    /\ \E status \in Statuses, w \in PrinterWires :
          /\ response' = [kind |-> "http", status |-> status]
          /\ wire' = w
          /\ ipp_response' = WireBytes(w)
          /\ pc' = "parse"
          /\ UNCHANGED printer_attributes
    /\ UNCHANGED <<printer_url, url, ipp_request, pos, attributes, value, tag_reads>>
    /\ UnchangedInk

\* lines 189-201: the printer answers; only the body of a 200 is decoded
PostResponds ==
    /\ pc = "post"
    /\ \E status \in Statuses, w \in PrinterWires :
          /\ response' = [kind |-> "http", status |-> status]
          /\ wire' = w
          /\ IF status = HTTP_OK
             THEN /\ ipp_response' = WireBytes(w)
                  /\ pc' = "parse"
                  /\ UNCHANGED printer_attributes
             ELSE /\ printer_attributes' = EmptyDict
                  /\ pc' = "ink"
                  /\ UNCHANGED ipp_response
    /\ UNCHANGED <<printer_url, url, ipp_request, pos, attributes, value, tag_reads>>
    /\ UnchangedInk

-----------------------------------------------------------------------------
(* get_ink_levels                                                          *)

\* s.split(',')
RECURSIVE Split(_)
Split(s) ==
    IF \A k \in 1..Len(s) : s[k] # 44 THEN <<s>>
    ELSE LET k == CHOOSE j \in 1..Len(s) : s[j] = 44 /\ \A m \in 1..(j - 1) : s[m] # 44
         IN  <<SubSeq(s, 1, k - 1)>> \o Split(SubSeq(s, k + 1, Len(s)))

\* the characters str.strip() removes
StripSpace ==
    (9..13) \cup (28..32) \cup {133, 160, 5760} \cup (8192..8202)
    \cup {8232, 8233, 8239, 8287, 12288}

\* the ASCII characters int() skips around a number
IntSpace == (9..13) \cup {32}

RECURSIVE LStrip(_, _)
LStrip(s, space) ==
    IF s # <<>> /\ Head(s) \in space THEN LStrip(Tail(s), space) ELSE s

RECURSIVE RStrip(_, _)
RStrip(s, space) ==
    IF s # <<>> /\ s[Len(s)] \in space THEN RStrip(SubSeq(s, 1, Len(s) - 1), space) ELSE s

Strip(s, space) == RStrip(LStrip(s, space), space)

\* str.lower() on ASCII text
Lower(s) == [k \in 1..Len(s) |-> IF s[k] >= 65 /\ s[k] <= 90 THEN s[k] + 32 ELSE s[k]]

IsDigit(c) == c >= 48 /\ c <= 57

RECURSIVE DigitsValue(_)
DigitsValue(d) ==
    IF d = <<>> THEN 0
    ELSE IF d[Len(d)] = 95 THEN DigitsValue(SubSeq(d, 1, Len(d) - 1))
    ELSE 10 * DigitsValue(SubSeq(d, 1, Len(d) - 1)) + (d[Len(d)] - 48)

\* int(s) for ASCII text: blanks around, an optional sign, digits with
\* single underscores between them; ok = FALSE stands for ValueError
IntOfStr(s) ==
    LET t == Strip(s, IntSpace)
        signed == t # <<>> /\ t[1] \in {43, 45}
        d == IF signed THEN Tail(t) ELSE t
        wellformed ==
            /\ d # <<>>
            /\ IsDigit(d[1])
            /\ IsDigit(d[Len(d)])
            /\ \A k \in 1..Len(d) : IsDigit(d[k]) \/ d[k] = 95
            /\ \A k \in 1..(Len(d) - 1) : ~(d[k] = 95 /\ d[k + 1] = 95)
    IN  [ok |-> wellformed,
         n  |-> IF ~wellformed THEN 0
                ELSE IF signed /\ t[1] = 45 THEN 0 - DigitsValue(d)
                ELSE DigitsValue(d)]

\* lines 294-304, keys and values as code points
color_map ==
    (<<98, 108, 97, 99, 107>> :> <<40657, 33394>>)
    @@ (<<99, 121, 97, 110>> :> <<38738, 33394>>)
    @@ (<<109, 97, 103, 101, 110, 116, 97>> :> <<21697, 32418, 33394>>)
    @@ (<<121, 101, 108, 108, 111, 119>> :> <<40644, 33394>>)
    @@ (<<112, 104, 111, 116, 111, 45, 98, 108, 97, 99, 107>> :> <<29031, 29255, 40657>>)
    @@ (<<103, 114, 97, 121>> :> <<28784, 33394>>)
    @@ (<<112, 104, 111, 116, 111, 45, 103, 114, 97, 121>> :> <<29031, 29255, 28784>>)
    @@ (<<108, 105, 103, 104, 116, 45, 99, 121, 97, 110>> :> <<27973, 38738, 33394>>)
    @@ (<<108, 105, 103, 104, 116, 45, 109, 97, 103, 101, 110, 116, 97>>
        :> <<27973, 21697, 32418, 33394>>)

\* line 306
get_color_name(color) ==
    IF Lower(color) \in DOMAIN color_map THEN color_map[Lower(color)] ELSE color

\* lines 253, 255, 257: the three status texts
STATUS_EMPTY == <<31354>>
STATUS_WARNING == <<35686, 21578>>
STATUS_OK == <<27491, 24120>>

LEVEL_MIN == 0
LEVEL_MAX == 100
LEVEL_EMPTY_BELOW == 10
LEVEL_WARNING_BELOW == 20

\* ClampLevel without the upper limit
ClampLevelBelowOnly(level) == Max(LEVEL_MIN, level)

\* line 249
ClampLevel(level) == Max(LEVEL_MIN, Min(LEVEL_MAX, level))

\* lines 252-257
StatusOf(level) ==
    IF level < LEVEL_EMPTY_BELOW THEN STATUS_EMPTY
    ELSE IF level < LEVEL_WARNING_BELOW THEN STATUS_WARNING
    ELSE STATUS_OK

\* lines 224-243: attributes.get(name, ''), split when it is a str.  The
\* decoder produces str, int and bytes values, never a list.
MarkerList(attrs, name) ==
    LET x == IF name \in DOMAIN attrs THEN attrs[name] ELSE StrVal(<<>>)
    IN  IF x.t = "str" THEN [t |-> "list", v |-> Split(x.v)] ELSE x

marker_colors == MarkerList(printer_attributes, S_marker_colors)
marker_levels == MarkerList(printer_attributes, S_marker_levels)
marker_names == MarkerList(printer_attributes, S_marker_names)
marker_types == MarkerList(printer_attributes, S_marker_types)

\* len(x) is a TypeError for an int
HasLen(x) == x.t \in {"list", "bytes"}

\* x[k]: a token of a list is a str, an element of a bytes object an int
Item(x, k) == IF x.t = "list" THEN StrVal(x.v[k + 1]) ELSE IntVal(x.v[k + 1])

\* int(x)
IntOf(x) == IF x.t = "str" THEN IntOfStr(x.v) ELSE [ok |-> TRUE, n |-> x.v[1]]

\* lines 259-270
Cartridge(k, level) ==
    LET base == [color |-> Strip(Lower(marker_colors.v[k + 1]), StripSpace),
                 color_name |-> get_color_name(marker_colors.v[k + 1]),
                 level |-> level,
                 status |-> StatusOf(level)]
        named == IF k < Len(marker_names.v)
                 THEN base @@ ("name" :> Item(marker_names, k)) ELSE base
    IN  IF k < Len(marker_types.v)
        THEN named @@ ("type" :> Item(marker_types, k)) ELSE named

\* Entry with the ValueError of int() left to the handler of line 280
EntryValueErrorFatal(k) ==
    IF ~HasLen(marker_levels) THEN [kind |-> "abort"]
    ELSE LET level == IF k < Len(marker_levels.v) THEN IntOf(Item(marker_levels, k))
                      ELSE [ok |-> TRUE, n |-> 0]
         IN  IF ~level.ok THEN [kind |-> "abort"]
             ELSE IF marker_colors.t # "list" THEN [kind |-> "abort"]
             ELSE IF ~HasLen(marker_names) THEN [kind |-> "abort"]
             ELSE IF ~HasLen(marker_types) THEN [kind |-> "abort"]
             ELSE [kind |-> "append", record |-> Cartridge(k, ClampLevel(level.n))]

\* lines 247-276, one pass of the loop body: "append" a record, "skip" the
\* entry (ValueError or IndexError, line 274), or "abort" with any other
\* exception, which line 280 catches
Entry(k) ==
    IF ~HasLen(marker_levels) THEN [kind |-> "abort"]
    ELSE LET level == IF k < Len(marker_levels.v) THEN IntOf(Item(marker_levels, k))
                      ELSE [ok |-> TRUE, n |-> 0]
         IN  IF ~level.ok THEN [kind |-> "skip"]
             ELSE IF marker_colors.t # "list" THEN [kind |-> "abort"]
             ELSE IF ~HasLen(marker_names) THEN [kind |-> "abort"]
             ELSE IF ~HasLen(marker_types) THEN [kind |-> "abort"]
             ELSE [kind |-> "append", record |-> Cartridge(k, ClampLevel(level.n))]

UnchangedAll ==
    UNCHANGED <<printer_url, url, ipp_request, wire, response, ipp_response, pos,
                attributes, value, tag_reads, printer_attributes>>

\* lines 217-218: nothing came back from get_printer_attributes
InkNoAttributes ==
    /\ pc = "ink"
    /\ DOMAIN printer_attributes = {}
    /\ ret' = <<>>
    /\ pc' = "done"
    /\ UNCHANGED <<i, cartridges>>
    /\ UnchangedAll

\* lines 221-246: the four lists are read and the loop starts
InkStart ==
    /\ pc = "ink"
    /\ DOMAIN printer_attributes # {}
    /\ HasLen(marker_colors)
    /\ cartridges' = <<>>
    /\ i' = 0
    /\ pc' = "loop"
    /\ UNCHANGED ret
    /\ UnchangedAll

\* lines 246-276: one index of marker-colors
InkEntry ==
    /\ pc = "loop"
    /\ i < Len(marker_colors.v)
    /\ Entry(i).kind # "abort"
    /\ cartridges' = IF Entry(i).kind = "append"
                     THEN Append(cartridges, Entry(i).record) ELSE cartridges
    /\ i' = i + 1
    /\ UNCHANGED <<pc, ret>>
    /\ UnchangedAll

\* lines 280-282: an exception other than ValueError and IndexError, in
\* range(len(marker_colors)) or in the loop body, returns []
InkAbort ==
    /\ IF pc = "ink" THEN DOMAIN printer_attributes # {} /\ ~HasLen(marker_colors)
       ELSE pc = "loop" /\ i < Len(marker_colors.v) /\ Entry(i).kind = "abort"
    /\ ret' = <<>>
    /\ pc' = "done"
    /\ UNCHANGED <<i, cartridges>>
    /\ UnchangedAll

\* line 278, and line 323 of the entry point
InkReturn ==
    /\ pc = "loop"
    /\ i >= Len(marker_colors.v)
    /\ ret' = cartridges
    /\ pc' = "done"
    /\ UNCHANGED <<i, cartridges>>
    /\ UnchangedAll

get_ink_levels == InkNoAttributes \/ InkStart \/ InkEntry \/ InkAbort \/ InkReturn

-----------------------------------------------------------------------------
(* The attribute mappings get_ink_levels is given                          *)

RECURSIVE Join(_)
Join(tokens) ==
    IF tokens = <<>> THEN <<>>
    ELSE IF Len(tokens) = 1 THEN tokens[1]
    ELSE tokens[1] \o <<44>> \o Join(Tail(tokens))

Absent == [t |-> "absent", v |-> <<>>]

TextChoices(tokens) == {StrVal(Join(ts)) : ts \in SeqsUpTo(tokens, MaxTokens)}

\* "black", and "Cyan " (to be lowered and stripped, and not in color_map)
ColorTokens == {<<98, 108, 97, 99, 107>>, <<67, 121, 97, 110, 32>>}

\* "8", "15", "45", "150", "-5" and "x"
LevelTokens == {<<56>>, <<49, 53>>, <<52, 53>>, <<49, 53, 48>>, <<45, 53>>, <<120>>}

ColorChoices == {Absent, IntVal(3), BytesVal(<<97, 98>>)} \cup TextChoices(ColorTokens)
LevelChoices == {Absent, IntVal(7), BytesVal(<<50>>)} \cup TextChoices(LevelTokens)
\* "Black Ink" and "A,B"
NameChoices == {Absent, IntVal(4), BytesVal(<<75>>),
                StrVal(<<66, 108, 97, 99, 107, 32, 73, 110, 107>>),
                StrVal(<<65, 44, 66>>)}
\* "ink"
TypeChoices == {Absent, IntVal(5), StrVal(<<105, 110, 107>>)}

Dict4(c, l, n, t) ==
    LET given == (S_marker_colors :> c) @@ (S_marker_levels :> l)
                 @@ (S_marker_names :> n) @@ (S_marker_types :> t)
    IN  [k \in {x \in DOMAIN given : given[x] # Absent} |-> given[k]]

InkMappings ==
    {Dict4(c, l, n, t) :
        c \in ColorChoices, l \in LevelChoices, n \in NameChoices, t \in TypeChoices}

\* get_ink_levels at line 217, get_printer_attributes having returned a mapping
InitInk ==
    /\ pc = "ink"
    /\ printer_attributes \in InkMappings
    /\ wire = [attrs |-> <<>>, ended |-> FALSE, more |-> <<>>, cut |-> 0]
    /\ ipp_response = <<>>
    /\ printer_url = <<>>
    /\ url = <<>>
    /\ ipp_request = <<>>
    /\ response = [kind |-> "none", status |-> 0]
    /\ pos = 0
    /\ attributes = EmptyDict
    /\ value = Unbound
    /\ tag_reads = 0
    /\ i = 0
    /\ cartridges = <<>>
    /\ ret = <<>>

NextInk ==
    \/ InkNoAttributes
    \/ InkStart
    \/ InkEntry
    \/ InkAbort
    \/ InkReturn

SpecInk == InitInk /\ [][NextInk]_vars

-----------------------------------------------------------------------------
(* get_ink_info_via_ipp: the whole call                                    *)

Init ==
    /\ pc = "call"
    /\ printer_url \in PrinterUrls
    /\ url = <<>>
    /\ ipp_request = <<>>
    /\ wire = [attrs |-> <<>>, ended |-> FALSE, more |-> <<>>, cut |-> 0]
    /\ response = [kind |-> "none", status |-> 0]
    /\ ipp_response = <<>>
    /\ pos = 0
    /\ attributes = EmptyDict
    /\ value = Unbound
    /\ tag_reads = 0
    /\ printer_attributes = EmptyDict
    /\ i = 0
    /\ cartridges = <<>>
    /\ ret = <<>>

Next ==
    \/ GetPrinterAttributes
    \/ PostRaises
    \/ PostResponds
    \/ ParseEnter
    \/ ParseGroup
    \/ ParseReturn
    \/ ParseAttrEnd
    \/ ParseAttr
    \/ ParseFail
    \/ InkNoAttributes
    \/ InkStart
    \/ InkEntry
    \/ InkAbort
    \/ InkReturn

Spec == Init /\ [][Next]_vars

-----------------------------------------------------------------------------
(* Claims about _parse_ipp_response, under SpecParse                       *)

\* _parse_ipp_response has returned
Parsed == pc = "ink"

LastAttr == wire.attrs[Len(wire.attrs)]

\* the buffer ends inside the value of its last attribute: the value length
\* is whole and claims more bytes than remain
TruncatedMidValue ==
    /\ wire.attrs # <<>>
    /\ ~wire.ended
    /\ wire.cut >= 1
    /\ wire.cut <= Len(LastAttr.payload)

\* C1: a buffer truncated in the middle of a value decodes to the empty
\* mapping: no attribute decoded before the truncation point and no partly
\* read value is returned.
C1_TruncatedYieldsEmpty ==
    (Parsed /\ TruncatedMidValue) => printer_attributes = EmptyDict

SupportedTags == {TAG_TEXT, TAG_OCTET, TAG_NAME, TAG_ENUM, TAG_KEYWORD}

\* the value an attribute of a supported tag carries on the wire
WireValue(a) ==
    IF a.tag = TAG_ENUM THEN IntVal(BigEndian(a.payload))
    ELSE IF a.tag = TAG_OCTET THEN BytesVal(a.payload)
    ELSE StrVal(Utf8Decode(a.payload).s)

\* the mapping of the supported-tag attributes of a group, the last
\* occurrence of a name winning
RECURSIVE WireMapping(_)
WireMapping(as) ==
    IF as = <<>> THEN EmptyDict
    ELSE LET front == WireMapping(SubSeq(as, 1, Len(as) - 1))
             a == as[Len(as)]
         IN  IF a.tag \in SupportedTags
             THEN DictSet(front, Utf8Decode(a.name).s, WireValue(a))
             ELSE front

\* one whole group closed by the end-of-attributes tag, nothing after it
WellFormed == wire.ended /\ wire.cut = 0 /\ wire.more = <<>>

HasUnknownTag == \E k \in 1..Len(wire.attrs) : wire.attrs[k].tag \notin SupportedTags

\* C2: in a well-formed response with an attribute of an unrecognised tag,
\* that attribute is skipped and the result maps exactly the supported-tag
\* attributes, each to its own wire value.
C2_UnknownTagSkipped ==
    (Parsed /\ WellFormed /\ HasUnknownTag) => printer_attributes = WireMapping(wire.attrs)

\* the inner loop has just read the end-of-attributes tag as an attribute tag
EndTagRead ==
    /\ pc = "group"
    /\ pos >= 10
    /\ pos <= Len(ipp_response)
    /\ ipp_response[pos] = TAG_END

\* C3: once the first end-of-attributes tag is read as an attribute tag,
\* decoding stops: the next step returns the mapping as it is and reads no
\* further byte.
C3_StopsAtFirstEndTag ==
    [][EndTagRead => (pc' = "ink" /\ pos' = pos /\ printer_attributes' = attributes)]_vars

-----------------------------------------------------------------------------
(* Claims about get_ink_info_via_ipp, under Spec                           *)

Returned == pc = "done"

\* C4: the entry point returns the empty sequence whenever the POST raised,
\* whenever the HTTP status is not 200 and whenever the decoder returned an
\* empty mapping.
C4_FailureReturnsEmpty ==
    (/\ Returned
     /\ \/ response.kind = "raised"
        \/ response.kind = "http" /\ response.status # HTTP_OK
        \/ DOMAIN printer_attributes = {})
    => ret = <<>>

\* a printer answered 404 with a body that decodes to cartridges, and the
\* call returned []
C4_Witness ==
    /\ Returned
    /\ response.kind = "http"
    /\ response.status # HTTP_OK
    /\ Len(wire.attrs) >= 2
    /\ wire.attrs[1].name = S_marker_colors
    /\ wire.attrs[2].name = S_marker_levels
    /\ wire.attrs[2].tag = TAG_TEXT
    /\ ret = <<>>

\* an attribute with text name and value, as RFC 8010 encodes it
TextAttr(tag, name, val) ==
    EncodeAttr([tag |-> tag, name |-> Utf8EncodeAll(name), payload |-> Utf8EncodeAll(val)])

\* the reference encoding of Get-Printer-Attributes for a printer URI
ReferenceRequest(uri) ==
    <<2, 1>> \o <<0, 11>> \o <<0, 0, 0, 1>> \o <<1>>
    \* attributes-charset = utf-8
    \o TextAttr(71, <<97, 116, 116, 114, 105, 98, 117, 116, 101, 115, 45, 99, 104,
                      97, 114, 115, 101, 116>>, <<117, 116, 102, 45, 56>>)
    \* attributes-natural-language = en-us
    \o TextAttr(72, <<97, 116, 116, 114, 105, 98, 117, 116, 101, 115, 45, 110, 97,
                      116, 117, 114, 97, 108, 45, 108, 97, 110, 103, 117, 97, 103,
                      101>>, <<101, 110, 45, 117, 115>>)
    \* printer-uri = the URI
    \o TextAttr(69, <<112, 114, 105, 110, 116, 101, 114, 45, 117, 114, 105>>, uri)
    \* requested-attributes = marker-colors,marker-levels,marker-names,marker-types
    \o TextAttr(68, <<114, 101, 113, 117, 101, 115, 116, 101, 100, 45, 97, 116, 116,
                      114, 105, 98, 117, 116, 101, 115>>,
                S_marker_colors \o <<44>> \o S_marker_levels \o <<44>>
                \o S_marker_names \o <<44>> \o S_marker_types)
    \o <<3>>

\* C5: the request built for a printer URI is the reference encoding: every
\* attribute as tag, 2-byte name length, name, 2-byte value length, value,
\* with printer-uri carrying the URI unchanged.
C5_RequestIsReferenceEncoding ==
    pc # "call" => ipp_request = ReferenceRequest(printer_url)

-----------------------------------------------------------------------------
(* Claims about get_ink_levels, under SpecInk                              *)

Given(name) == name \in DOMAIN printer_attributes
GivenText(name) == Given(name) /\ printer_attributes[name].t = "str"

\* the loop body is about to run for index i
AtIndex == pc = "loop" /\ i < Len(marker_colors.v)

\* the integer the marker-levels token of index k stands for, if it is one
TokenLevel(k) ==
    IF marker_levels.t = "list" /\ k < Len(marker_levels.v)
    THEN IntOfStr(marker_levels.v[k + 1])
    ELSE [ok |-> FALSE, n |-> 0]

\* C6: every record collected has an integer level in 0..100, a source level
\* above 100 giving 100 and one below 0 giving 0, and its status is Empty
\* below 10, Warning from 10 to 19 and Ok from 20.
C6_LevelClampedStatusByLevel ==
    [][(pc = "loop" /\ cartridges' # cartridges) =>
        LET r == cartridges'[Len(cartridges')]
        IN  /\ Len(cartridges') = Len(cartridges) + 1
            /\ r.level \in 0..100
            /\ (TokenLevel(i).ok /\ TokenLevel(i).n > 100) => r.level = 100
            /\ (TokenLevel(i).ok /\ TokenLevel(i).n < 0) => r.level = 0
            /\ (TokenLevel(i).ok /\ TokenLevel(i).n \in 0..100) => r.level = TokenLevel(i).n
            /\ r.level < 10 => r.status = STATUS_EMPTY
            /\ (r.level >= 10 /\ r.level < 20) => r.status = STATUS_WARNING
            /\ r.level >= 20 => r.status = STATUS_OK]_vars

\* marker-levels "150,-5" came back as the levels 100 and 0
C6_Witness ==
    /\ Returned
    /\ GivenText(S_marker_levels)
    /\ printer_attributes[S_marker_levels].v = <<49, 53, 48, 44, 45, 53>>
    /\ Len(ret) = 2
    /\ ret[1].level = 100 /\ ret[1].status = STATUS_OK
    /\ ret[2].level = 0 /\ ret[2].status = STATUS_EMPTY

\* C7: with no marker-colors entry, or with the empty string as its value,
\* the empty sequence is returned whatever the other attributes are.
C7_NoColorsNoRecords ==
    (/\ Returned
     /\ \/ ~Given(S_marker_colors)
        \/ printer_attributes[S_marker_colors] = StrVal(<<>>))
    => ret = <<>>

\* marker-colors is a text value that names at least one colour
ColorsNamed == GivenText(S_marker_colors) /\ printer_attributes[S_marker_colors].v # <<>>

\* marker-names and marker-types are absent or text
NamesAndTypesPlain ==
    /\ Given(S_marker_names) => GivenText(S_marker_names)
    /\ Given(S_marker_types) => GivenText(S_marker_types)

\* marker-levels has no entry for index k
NoLevelEntry(k) ==
    \/ ~Given(S_marker_levels)
    \/ GivenText(S_marker_levels) /\ k >= Len(marker_levels.v)

\* C8: an index of marker-colors that has no marker-levels entry, index 0 with
\* marker-levels missing altogether included, still gets a record, of level 0.
C8_MissingLevelGivesZero ==
    [][(AtIndex /\ ColorsNamed /\ NamesAndTypesPlain /\ NoLevelEntry(i)) =>
        /\ Len(cartridges') = Len(cartridges) + 1
        /\ cartridges'[Len(cartridges')].level = 0]_vars

\* C9: no record carries the key 'name' when marker-names is absent from the
\* mapping, nor the key 'type' when marker-types is.
C9_AbsentNamesNoKey ==
    ColorsNamed =>
        \A k \in 1..Len(cartridges) :
            /\ ~Given(S_marker_names) => "name" \notin DOMAIN cartridges[k]
            /\ ~Given(S_marker_types) => "type" \notin DOMAIN cartridges[k]

\* index k of marker-colors has an integer level token, or none
GoodIndex(k) == k >= Len(marker_levels.v) \/ TokenLevel(k).ok

\* colour and level of the records of the indices from k on whose level token
\* is an integer or missing, in the order of marker-colors
RECURSIVE KeptFrom(_)
KeptFrom(k) ==
    IF k >= Len(marker_colors.v) THEN <<>>
    ELSE (IF GoodIndex(k)
          THEN <<[color |-> Strip(Lower(marker_colors.v[k + 1]), StripSpace),
                  level |-> IF TokenLevel(k).ok
                            THEN Max(0, Min(100, TokenLevel(k).n)) ELSE 0]>>
          ELSE <<>>)
         \o KeptFrom(k + 1)

ColorAndLevel(rs) == [k \in 1..Len(rs) |-> [color |-> rs[k].color, level |-> rs[k].level]]

\* marker-colors and marker-levels are text and some level token is no integer
SomeBadLevel ==
    /\ GivenText(S_marker_colors)
    /\ GivenText(S_marker_levels)
    /\ \E k \in 0..(Len(marker_colors.v) - 1) : ~GoodIndex(k)

-----------------------------------------------------------------------------
(* Termination of _parse_ipp_response, under SpecParseFair                 *)

\* a loop of the decoder is about to run its body: it reads a tag byte
ReadsTag == pc \in {"group", "attr"} /\ pos < Len(ipp_response)

\* C11 as stated: the decoder reads at most len(buffer) - 8 tags.
C11_TagReadsBounded_Original == Parsed => tag_reads <= Len(ipp_response) - 8

\* C11, amended: the cursor strictly increases on every iteration of the
\* outer and of the inner loop, each iteration reading one tag; at most
\* max(0, len(buffer) - 8) tags are read (a buffer shorter than the 8-byte
\* preamble has none); and the decoder reaches its return.
C11_Terminates ==
    /\ [][ReadsTag => (pos' > pos /\ tag_reads' = tag_reads + 1)]_vars
    /\ [](tag_reads <= Max(0, Len(ipp_response) - 8))
    /\ <>Parsed

\* the decoder returned a non-empty mapping after reading as many tags as
\* the buffer has bytes past the preamble
C11_Witness ==
    /\ Parsed
    /\ DOMAIN printer_attributes # {}
    /\ tag_reads >= 3
    /\ pos >= Len(ipp_response)

====
